---- MODULE Spec2Model ----
(***************************************************************************)
(* State-machine model of the concurrent connect scanner                   *)
(* (core/port_scanner.py, class PortScanner) as driven by scanner.py.      *)
(*                                                                         *)
(* One main thread runs scan(); it starts worker threads that share a FIFO *)
(* work queue (queue.Queue: items + unfinished_tasks), a lock and the      *)
(* open_ports list.  The network is a fixed function from port to the      *)
(* outcome of a connection attempt.                                        *)
(***************************************************************************)
EXTENDS Integers, Sequences, FiniteSets, TLC

\* ------------------------------------------------------------------ bounds
NumPorts == 3
MaxThreads == 2

\* Candidate port numbers, ascending; a request uses a subset of the first
\* NumPorts of them.
PortPool == <<22, 80, 9999, 10000, 10001>>

PortUniverse == {PortPool[i] : i \in 1..NumPorts}

Workers == 1..MaxThreads

\* ------------------------------------------------------------- environment
\* What one connection attempt to a port meets in the fixed network:
\*   accept   connect_ex returns 0
\*   errno    connect_ex returns a nonzero errno: refused (ECONNREFUSED),
\*            timed out (EAGAIN/ETIMEDOUT), reset (ECONNRESET), ...
\*   oserror  socket.error is raised (socket creation fails)
\*   gaierror socket.gaierror is raised: the target does not resolve
\* Resolution concerns the target, so either every port or none is gaierror.
PortOutcomes == {"accept", "errno", "oserror"}

\* queue.put(None): the stop sentinel
NoneItem == 0

\* self.lock is free
Unlocked == 0

VARIABLES
    ports,        \* self.ports: the request's port list
    threads,      \* self.threads: configured worker budget
    timeout,      \* self.timeout (sign only: -1, 0, 1)
    net,          \* the fixed network: port -> outcome
    open_ports,   \* self.open_ports
    queue,        \* self.queue: items of the FIFO queue
    unfinished,   \* self.queue.unfinished_tasks
    lock,         \* self.lock: holder (worker id) or Unlocked
    pc,           \* main thread's position in main()/scan()
    idx,          \* main thread's loop counter inside scan()
    spawned,      \* len(threads) of scan(): worker threads started
    wpc,          \* each worker thread's position
    wport,        \* the port each worker holds (local variable port)
    probes,       \* history: tcp_scan invocations per port in this call
    reports,      \* history: "Hostname could not be resolved" lines printed
    result,       \* the value scan() returned (NoResult before that)
    callNo,       \* how many times scan() was called on this instance
    prev_result,  \* history: the result of the previous scanner instance
    run,          \* history: the first or the second scanner instance
    db_file,      \* history: what open(db_path) met ("unopened" before)
    services_db,  \* ServiceDetector.services_db
    services,     \* detect_services: the list services
    met,          \* history: what each banner probe met, per record
    sockets       \* sockets created by probes and not closed by a close()

vars == <<ports, threads, timeout, net, open_ports, queue, unfinished, lock,
          pc, idx, spawned, wpc, wport, probes, reports, result, callNo,
          prev_result, run, db_file, services_db, services, met, sockets>>

\* The service identifier's part of the state.
detvars == <<db_file, services_db, services, met>>

\* ----------------------------------------------------------------- helpers
RECURSIVE SeqOfPool(_, _)
\* The ascending sequence of the ports of S, in PortPool order from index i.
SeqOfPool(S, i) ==
    IF i > Len(PortPool) THEN <<>>
    ELSE IF PortPool[i] \in S THEN <<PortPool[i]>> \o SeqOfPool(S, i + 1)
    ELSE SeqOfPool(S, i + 1)

Range(s) == {s[i] : i \in 1..Len(s)}

Min(a, b) == IF a <= b THEN a ELSE b

RECURSIVE Insert(_, _)
Insert(x, s) ==
    IF s = <<>> THEN <<x>>
    ELSE IF x <= Head(s) THEN <<x>> \o s
    ELSE <<Head(s)>> \o Insert(x, Tail(s))

\* A sort that does nothing: the list stays in insertion order.
SortedNoSort(s) == s

RECURSIVE SortedDescending(_)
\* A sort in the wrong direction: sort(reverse=True).
SortedDescending(s) ==
    IF s = <<>> THEN <<>>
    ELSE LET m == CHOOSE i \in 1..Len(s) : \A j \in 1..Len(s) : s[j] <= s[i]
         IN  <<s[m]>> \o SortedDescending(
                 [k \in 1..(Len(s) - 1) |-> IF k < m THEN s[k] ELSE s[k + 1]])

RECURSIVE Sorted(_)
\* list.sort(): ascending, duplicates kept.
Sorted(s) == IF s = <<>> THEN <<>> ELSE Insert(Head(s), Sorted(Tail(s)))

NoResult == [returned |-> FALSE]

\* No ServiceDetector constructed yet: no table.
NoTable == <<>>

\* The requests a caller can make: parse_ports yields an ascending list
\* without duplicates (possibly empty); threads and timeout come unchecked
\* from the command line (argparse type=int / type=float).
PortLists == {SeqOfPool(S, 1) : S \in SUBSET PortUniverse}

ThreadChoices == (-1)..MaxThreads

TimeoutChoices == {-1, 0, 1}

Networks(ps) ==
    {[p \in Range(ps) |-> "gaierror"]} \cup [Range(ps) -> PortOutcomes]

\* -------------------------------------------------------------------- Init
\* PortScanner.__init__
NewInstance ==
    /\ open_ports = <<>>
    /\ queue = <<>>
    /\ unfinished = 0
    /\ lock = Unlocked
    /\ callNo = 0

Init ==
    /\ ports \in PortLists
    /\ threads \in ThreadChoices
    /\ timeout \in TimeoutChoices
    /\ net \in Networks(ports)
    /\ NewInstance
    /\ pc = "start"
    /\ idx = 0
    /\ spawned = 0
    /\ wpc = [w \in Workers |-> "unstarted"]
    /\ wport = [w \in Workers |-> NoneItem]
    /\ probes = [p \in PortUniverse |-> 0]
    /\ reports = 0
    /\ result = NoResult
    /\ prev_result = NoResult
    /\ run = "first"
    /\ db_file = "unopened"
    /\ services_db = NoTable
    /\ services = <<>>
    /\ met = <<>>
    /\ sockets = 0

\* A request inside the interface's domain: positive pool size and timeout.
ValidRequest == threads >= 1 /\ timeout > 0

\* ---------------------------------------------------------------- tcp_scan
\* A probe without the "except socket.error" clause: the error leaves
\* tcp_scan and the worker thread.
tcp_scan_uncaught(port) ==
    IF net[port] = "oserror"
    THEN [raised |-> TRUE, ret |-> FALSE, report |-> "none",
          left_open |-> 0]
    ELSE IF timeout < 0
    THEN [raised |-> TRUE, ret |-> FALSE, report |-> "none",
          left_open |-> 1]
    ELSE IF net[port] = "gaierror"
    THEN [raised |-> FALSE, ret |-> FALSE, report |-> "resolve",
          left_open |-> 1]
    ELSE IF timeout = 0
    THEN [raised |-> FALSE, ret |-> FALSE, report |-> "none",
          left_open |-> 0]
    ELSE [raised |-> FALSE, ret |-> (net[port] = "accept"), report |-> "none",
          left_open |-> 0]

\* A probe that takes any errno from connect_ex for success and only a
\* raised exception for failure (the test on result inverted).
tcp_scan_any_result(port) ==
    IF net[port] = "oserror"
    THEN [raised |-> FALSE, ret |-> FALSE, report |-> "connect",
          left_open |-> 0]
    ELSE IF timeout < 0
    THEN [raised |-> TRUE, ret |-> FALSE, report |-> "none",
          left_open |-> 1]
    ELSE IF net[port] = "gaierror"
    THEN [raised |-> FALSE, ret |-> FALSE, report |-> "resolve",
          left_open |-> 1]
    ELSE [raised |-> FALSE, ret |-> TRUE, report |-> "none",
          left_open |-> 0]

\* One connection attempt.  raised: an exception leaves tcp_scan;
\* ret: the value returned; report: the line printed, if any.
tcp_scan(port) ==
    IF net[port] = "oserror"
    THEN [raised |-> FALSE, ret |-> FALSE, report |-> "connect",
          left_open |-> 0]
    ELSE IF timeout < 0          \* settimeout(): ValueError, not caught
    THEN [raised |-> TRUE, ret |-> FALSE, report |-> "none",
          left_open |-> 1]
    ELSE IF net[port] = "gaierror"
    THEN [raised |-> FALSE, ret |-> FALSE, report |-> "resolve",
          left_open |-> 1]
    ELSE IF timeout = 0          \* non-blocking connect: EINPROGRESS
    THEN [raised |-> FALSE, ret |-> FALSE, report |-> "none",
          left_open |-> 0]
    ELSE [raised |-> FALSE, ret |-> (net[port] = "accept"), report |-> "none",
          left_open |-> 0]

\* ------------------------------------------------------------ worker thread
\* port = self.queue.get(); if port is None: break
WorkerGet(w) ==
    /\ wpc[w] = "get"
    /\ queue # <<>>
    /\ queue' = Tail(queue)
    /\ wport' = [wport EXCEPT ![w] = Head(queue)]
    /\ wpc' = [wpc EXCEPT ![w] = IF Head(queue) = NoneItem THEN "exited"
                                 ELSE "scan"]
    /\ UNCHANGED <<ports, threads, timeout, net, open_ports, unfinished, lock,
                   pc, idx, spawned, probes, reports, result, callNo,
                   prev_result, run>>
    /\ UNCHANGED detvars
    /\ UNCHANGED sockets

\* A worker that tries the port again when the attempt did not connect.
AfterScanRetry(r) ==
    IF r.raised THEN "crashed"
    ELSE IF r.ret THEN "acquire"
    ELSE "scan"

\* A worker that records the port whatever tcp_scan returned.
AfterScanAlwaysOpen(r) ==
    IF r.raised THEN "crashed"
    ELSE "acquire"

\* Where the worker goes after tcp_scan(port) gave r.
AfterScan(r) ==
    IF r.raised THEN "crashed"      \* the thread dies, task_done() not called
    ELSE IF r.ret THEN "acquire"
    ELSE "task_done"

\* if self.tcp_scan(port):
WorkerScan(w) ==
    /\ wpc[w] = "scan"
    /\ LET r == tcp_scan(wport[w]) IN
         /\ wpc' = [wpc EXCEPT ![w] = AfterScan(r)]
         /\ reports' = IF r.report = "resolve" THEN reports + 1 ELSE reports
         /\ sockets' = sockets + r.left_open
    /\ probes' = [probes EXCEPT ![wport[w]] = @ + 1]
    /\ UNCHANGED <<ports, threads, timeout, net, open_ports, queue, unfinished,
                   lock, pc, idx, spawned, wport, result, callNo, prev_result,
                   run>>
    /\ UNCHANGED detvars

\* A worker that enters the with block without waiting for the lock.
WorkerAcquireNoWait(w) ==
    /\ wpc[w] = "acquire"
    /\ lock' = w
    /\ wpc' = [wpc EXCEPT ![w] = "append"]
    /\ UNCHANGED <<ports, threads, timeout, net, open_ports, queue, unfinished,
                   pc, idx, spawned, wport, probes, reports, result, callNo,
                   prev_result, run>>
    /\ UNCHANGED detvars
    /\ UNCHANGED sockets

\* with self.lock:   (entry)
WorkerAcquire(w) ==
    /\ wpc[w] = "acquire"
    /\ lock = Unlocked
    /\ lock' = w
    /\ wpc' = [wpc EXCEPT ![w] = "append"]
    /\ UNCHANGED <<ports, threads, timeout, net, open_ports, queue, unfinished,
                   pc, idx, spawned, wport, probes, reports, result, callNo,
                   prev_result, run>>
    /\ UNCHANGED detvars
    /\ UNCHANGED sockets

\* A worker that stores its port in place of the list.
WorkerAppendOverwrites(w) ==
    /\ wpc[w] = "append"
    /\ open_ports' = <<wport[w]>>
    /\ lock' = Unlocked
    /\ wpc' = [wpc EXCEPT ![w] = "task_done"]
    /\ UNCHANGED <<ports, threads, timeout, net, queue, unfinished, pc, idx,
                   spawned, wport, probes, reports, result, callNo,
                   prev_result, run>>
    /\ UNCHANGED detvars
    /\ UNCHANGED sockets

\* self.open_ports.append(port); print(...); leaving the with block
WorkerAppend(w) ==
    /\ wpc[w] = "append"
    /\ open_ports' = Append(open_ports, wport[w])
    /\ lock' = Unlocked
    /\ wpc' = [wpc EXCEPT ![w] = "task_done"]
    /\ UNCHANGED <<ports, threads, timeout, net, queue, unfinished, pc, idx,
                   spawned, wport, probes, reports, result, callNo,
                   prev_result, run>>
    /\ UNCHANGED detvars
    /\ UNCHANGED sockets

\* self.queue.task_done(), then back to the top of the loop
WorkerTaskDone(w) ==
    /\ wpc[w] = "task_done"
    /\ unfinished' = unfinished - 1
    /\ wpc' = [wpc EXCEPT ![w] = "get"]
    /\ UNCHANGED <<ports, threads, timeout, net, open_ports, queue, lock, pc,
                   idx, spawned, wport, probes, reports, result, callNo,
                   prev_result, run>>
    /\ UNCHANGED detvars
    /\ UNCHANGED sockets

WorkerStep(w) ==
    \/ WorkerGet(w)
    \/ WorkerScan(w)
    \/ WorkerAcquire(w)
    \/ WorkerAppend(w)
    \/ WorkerTaskDone(w)

\* -------------------------------------------------------------- main thread
\* The pool size taken unclamped: range(self.threads).
NumWorkersUnclamped == threads

\* A pool that is floored at one worker: range(max(1, min(...))).
NumWorkersFloorOne ==
    IF Min(threads, Len(ports)) < 1 THEN 1 ELSE Min(threads, Len(ports))

\* range(min(self.threads, len(self.ports))): the number of workers to start
\* (none when the minimum is not positive).
NumWorkers == Min(threads, Len(ports))

\* The main thread's position once n workers are started, i ports are put,
\* k sentinels are put, j threads are joined.
AfterJoinThreads(j) == IF j < spawned THEN "jointhreads" ELSE "finish"

\* One stop sentinel too few: range(len(threads) - 1).
AfterStopShort(k) == IF k + 1 < spawned THEN "stop" ELSE AfterJoinThreads(0)

AfterStop(k) == IF k < spawned THEN "stop" ELSE AfterJoinThreads(0)

AfterPut(i) == IF i < Len(ports) THEN "put" ELSE "join"

AfterSpawn(n) == IF n < NumWorkers THEN "spawn" ELSE AfterPut(0)

\* scanner.py main(): "if not ports: ... sys.exit(1)"
MainNoPorts ==
    /\ pc = "start"
    /\ ports = <<>>
    /\ pc' = "rejected"
    /\ UNCHANGED <<ports, threads, timeout, net, open_ports, queue, unfinished,
                   lock, idx, spawned, wpc, wport, probes, reports, result,
                   callNo, prev_result, run>>
    /\ UNCHANGED detvars
    /\ UNCHANGED sockets

\* Entry of scan(): start_time taken, threads = [].  Nothing of the instance
\* is reset.
ScanEnter ==
    /\ callNo' = callNo + 1
    /\ spawned' = 0
    /\ idx' = 0
    /\ pc' = AfterSpawn(0)
    /\ wpc' = [w \in Workers |-> "unstarted"]
    /\ wport' = [w \in Workers |-> NoneItem]
    /\ probes' = [p \in PortUniverse |-> 0]
    /\ reports' = 0
    /\ result' = NoResult
    /\ UNCHANGED <<ports, threads, timeout, net, open_ports, queue, unfinished,
                   lock, prev_result, run>>
    /\ UNCHANGED detvars
    /\ UNCHANGED sockets

\* scanner.scan() on a fresh instance
ScanStart ==
    /\ pc = "start"
    /\ ScanEnter

\* scanner.scan() a second time on the instance whose scan() has returned
ScanAgain ==
    /\ pc = "returned"
    /\ callNo = 1
    /\ ScanEnter

\* t = threading.Thread(target=self.worker); t.start(); threads.append(t)
SpawnWorker ==
    /\ pc = "spawn"
    /\ wpc' = [wpc EXCEPT ![spawned + 1] = "get"]
    /\ spawned' = spawned + 1
    /\ pc' = AfterSpawn(spawned + 1)
    /\ UNCHANGED <<ports, threads, timeout, net, open_ports, queue, unfinished,
                   lock, idx, wport, probes, reports, result, callNo,
                   prev_result, run>>
    /\ UNCHANGED detvars
    /\ UNCHANGED sockets

\* for port in self.ports: self.queue.put(port)
PutPort ==
    /\ pc = "put"
    /\ queue' = Append(queue, ports[idx + 1])
    /\ unfinished' = unfinished + 1
    /\ pc' = AfterPut(idx + 1)
    /\ idx' = IF pc' = "put" THEN idx + 1 ELSE 0
    /\ UNCHANGED <<ports, threads, timeout, net, open_ports, lock, spawned,
                   wpc, wport, probes, reports, result, callNo, prev_result,
                   run>>
    /\ UNCHANGED detvars
    /\ UNCHANGED sockets

\* A main thread that does not wait for the queue before stopping workers.
JoinNoWait ==
    /\ pc = "join"
    /\ pc' = AfterStop(0)
    /\ idx' = 0
    /\ UNCHANGED <<ports, threads, timeout, net, open_ports, queue, unfinished,
                   lock, spawned, wpc, wport, probes, reports, result, callNo,
                   prev_result, run>>
    /\ UNCHANGED detvars
    /\ UNCHANGED sockets

\* self.queue.join(): returns once unfinished_tasks is 0
Join ==
    /\ pc = "join"
    /\ unfinished = 0
    /\ pc' = AfterStop(0)
    /\ idx' = 0
    /\ UNCHANGED <<ports, threads, timeout, net, open_ports, queue, unfinished,
                   lock, spawned, wpc, wport, probes, reports, result, callNo,
                   prev_result, run>>
    /\ UNCHANGED detvars
    /\ UNCHANGED sockets

\* for _ in range(len(threads)): self.queue.put(None)
PutSentinel ==
    /\ pc = "stop"
    /\ queue' = Append(queue, NoneItem)
    /\ unfinished' = unfinished + 1
    /\ pc' = AfterStop(idx + 1)
    /\ idx' = IF pc' = "stop" THEN idx + 1 ELSE 0
    /\ UNCHANGED <<ports, threads, timeout, net, open_ports, lock, spawned,
                   wpc, wport, probes, reports, result, callNo, prev_result,
                   run>>
    /\ UNCHANGED detvars
    /\ UNCHANGED sockets

\* for t in threads: t.join()
JoinThread ==
    /\ pc = "jointhreads"
    /\ wpc[idx + 1] \in {"exited", "crashed"}
    /\ pc' = AfterJoinThreads(idx + 1)
    /\ idx' = IF pc' = "jointhreads" THEN idx + 1 ELSE 0
    /\ UNCHANGED <<ports, threads, timeout, net, open_ports, queue, unfinished,
                   lock, spawned, wpc, wport, probes, reports, result, callNo,
                   prev_result, run>>
    /\ UNCHANGED detvars
    /\ UNCHANGED sockets

\* The dict scan() returns (target and the clock readings left out).
ScanResult(open) ==
    [returned |-> TRUE, open_ports |-> open,
     total_ports_scanned |-> Len(ports)]

\* self.open_ports.sort(); return {...}
Finish ==
    /\ pc = "finish"
    /\ open_ports' = Sorted(open_ports)
    /\ result' = ScanResult(open_ports')
    /\ pc' = "returned"
    /\ UNCHANGED <<ports, threads, timeout, net, queue, unfinished, lock, idx,
                   spawned, wpc, wport, probes, reports, callNo, prev_result,
                   run>>
    /\ UNCHANGED detvars
    /\ UNCHANGED sockets

\* PortScanner(target, ports, timeout, threads) constructed a second time
\* for the same request, after the first instance's scan() has returned.
NewScanner ==
    /\ pc = "returned"
    /\ run = "first"
    /\ run' = "second"
    /\ prev_result' = result
    /\ open_ports' = <<>>
    /\ queue' = <<>>
    /\ unfinished' = 0
    /\ lock' = Unlocked
    /\ callNo' = 0
    /\ pc' = "start"
    /\ idx' = 0
    /\ spawned' = 0
    /\ wpc' = [w \in Workers |-> "unstarted"]
    /\ wport' = [w \in Workers |-> NoneItem]
    /\ probes' = [p \in PortUniverse |-> 0]
    /\ reports' = 0
    /\ result' = NoResult
    /\ UNCHANGED <<ports, threads, timeout, net>>
    /\ UNCHANGED detvars
    /\ UNCHANGED sockets

ScanStep ==
    \/ SpawnWorker
    \/ PutPort
    \/ Join
    \/ PutSentinel
    \/ JoinThread
    \/ Finish

Next ==
    \/ MainNoPorts
    \/ ScanStart
    \/ ScanAgain
    \/ NewScanner
    \/ ScanStep
    \/ \E w \in Workers : WorkerStep(w)

Spec == Init /\ [][Next]_vars

\* Fair scheduling of the threads of one scan(): the main thread inside
\* scan() and every worker thread keep running while they can take a step.
Fairness ==
    /\ WF_vars(ScanStep)
    /\ \A w \in Workers : WF_vars(WorkerStep(w))

\* One scan() call on a fresh instance for a valid request, as main() makes
\* it, under fair scheduling.
InitValid == Init /\ ValidRequest

NextScan ==
    \/ ScanStart
    \/ ScanStep
    \/ \E w \in Workers : WorkerStep(w)

FairSpec == InitValid /\ [][NextScan]_vars /\ Fairness

\* scanner.py main(): "except KeyboardInterrupt: ... sys.exit(0)".  The
\* signal reaches the main thread anywhere inside scan(); the exception
\* leaves scan() without a return value.  The workers are daemon threads:
\* they may still run until the interpreter has shut down.
Interrupt ==
    /\ pc \in {"spawn", "put", "join", "stop", "jointhreads", "finish"}
    /\ pc' = "interrupted"
    /\ UNCHANGED <<ports, threads, timeout, net, open_ports, queue, unfinished,
                   lock, idx, spawned, wpc, wport, probes, reports, result,
                   callNo, prev_result, run>>
    /\ UNCHANGED detvars
    /\ UNCHANGED sockets

\* One scan() call on a fresh instance that the user may interrupt.
NextInterruptible ==
    \/ NextScan
    \/ Interrupt

SpecInterrupt == Init /\ [][NextInterruptible]_vars

\* ====================================================== service identifier
\* service_detector.py.  Text is a sequence of one-character strings, and
\* received data a sequence of bytes: characters, or BadByte for a byte
\* that is not valid UTF-8.
BadByte == "0xff"

Whitespace == {" ", "\t", "\n", "\r"}

UpperCase == <<"A", "B", "C", "D", "E", "F", "G", "H", "I", "J", "K", "L", "M", "N", "O", "P", "Q", "R", "S", "T", "U", "V", "W", "X", "Y", "Z">>

LowerCase == <<"a", "b", "c", "d", "e", "f", "g", "h", "i", "j", "k", "l", "m", "n", "o", "p", "q", "r", "s", "t", "u", "v", "w", "x", "y", "z">>

\* The lowercase letter of each uppercase letter.
ToLower ==
    [c \in {UpperCase[i] : i \in 1..Len(UpperCase)} |->
        LowerCase[CHOOSE i \in 1..Len(UpperCase) : UpperCase[i] = c]]

\* str.lower() on one character.
lower_char(c) == IF c \in DOMAIN ToLower THEN ToLower[c] ELSE c

\* banner.lower()
lower(s) == [i \in 1..Len(s) |-> lower_char(s[i])]

\* Python's "t in s" on strings.
Contains(s, t) ==
    \E i \in 1..(Len(s) - Len(t) + 1) : SubSeq(s, i, i + Len(t) - 1) = t

\* bytes.decode('utf-8', errors='ignore'): undecodable bytes are dropped.
IsText(b) == b # BadByte

decode_ignore(data) == SelectSeq(data, IsText)

RECURSIVE lstrip(_)
lstrip(s) ==
    IF s # <<>> /\ Head(s) \in Whitespace THEN lstrip(Tail(s)) ELSE s

RECURSIVE rstrip(_)
rstrip(s) ==
    IF s # <<>> /\ s[Len(s)] \in Whitespace
    THEN rstrip(SubSeq(s, 1, Len(s) - 1))
    ELSE s

\* str.strip()
strip(s) == rstrip(lstrip(s))

\* An optional text: None, or the text in a one-element sequence.
None == <<>>

Some(text) == <<text>>

\* _get_default_services(): the built-in table, keyed by str(port).
get_default_services ==
    ("21" :> [service |-> "FTP", description |-> "File Transfer Protocol"])
    @@ ("22" :> [service |-> "SSH", description |-> "Secure Shell"])
    @@ ("23" :> [service |-> "Telnet", description |-> "Telnet"])
    @@ ("25" :> [service |-> "SMTP", description |-> "Simple Mail Transfer Protocol"])
    @@ ("53" :> [service |-> "DNS", description |-> "Domain Name System"])
    @@ ("80" :> [service |-> "HTTP", description |-> "Hypertext Transfer Protocol"])
    @@ ("110" :> [service |-> "POP3", description |-> "Post Office Protocol v3"])
    @@ ("143" :> [service |-> "IMAP", description |-> "Internet Message Access Protocol"])
    @@ ("443" :> [service |-> "HTTPS", description |-> "HTTP Secure"])
    @@ ("3306" :> [service |-> "MySQL", description |-> "MySQL Database"])
    @@ ("3389" :> [service |-> "RDP", description |-> "Remote Desktop Protocol"])
    @@ ("5432" :> [service |-> "PostgreSQL", description |-> "PostgreSQL Database"])
    @@ ("6379" :> [service |-> "Redis", description |-> "Redis Database"])
    @@ ("8080" :> [service |-> "HTTP-Proxy", description |-> "HTTP Alternate"])
    @@ ("8443" :> [service |-> "HTTPS-Alt", description |-> "HTTPS Alternate"])
    @@ ("27017" :> [service |-> "MongoDB", description |-> "MongoDB Database"])

\* A sample content of data/services.json when the file is there and is a
\* table: it knows 9999, and not 22.
FileServices ==
    ("80" :> [service |-> "HTTP", description |-> "Hypertext Transfer Protocol"])
    @@ ("9999" :> [service |-> "Custom", description |-> "Custom service"])

\* What open(db_path) and json.load meet: no file (FileNotFoundError), a
\* file that cannot be read (PermissionError), a file that is not JSON
\* (json.JSONDecodeError), or a table.
DbFiles == {"absent", "unreadable", "invalid", "valid"}

\* _load_services_db(): only FileNotFoundError is caught.
load_services_db(f) ==
    IF f = "absent" THEN [raised |-> FALSE, table |-> get_default_services]
    ELSE IF f = "valid" THEN [raised |-> FALSE, table |-> FileServices]
    ELSE [raised |-> TRUE, table |-> NoTable]

\* What one banner probe meets at the target: whether connect and send
\* succeed, whether recv returns, and the bytes it returns.
\* The connect fails (refused, timed out).
ProbeConnectFails == [connect |-> FALSE, send |-> FALSE, recv |-> FALSE, data |-> <<>>]

\* Connected, request sent, the read fails (timeout, reset).
ProbeRecvFails == [connect |-> TRUE, send |-> TRUE, recv |-> FALSE, data |-> <<>>]

\* The send fails, the read returns a greeting.
ProbeSendFailsGreeting == [connect |-> TRUE, send |-> FALSE, recv |-> TRUE, data |-> <<"2", "2", "0", " ", "F", "T", "P">>]

ProbeHttp == [connect |-> TRUE, send |-> TRUE, recv |-> TRUE, data |-> <<"H", "T", "T", "P", "/", "1", ".", "1", " ", "2", "0", "0", " ", "O", "K">>]

ProbeSsh == [connect |-> TRUE, send |-> TRUE, recv |-> TRUE, data |-> <<"S", "S", "H", "-", "2", ".", "0", "\r", "\n">>]

ProbeMysql == [connect |-> TRUE, send |-> TRUE, recv |-> TRUE, data |-> <<"M", "y", "S", "Q", "L">>]

ProbeMysqlSmtp == [connect |-> TRUE, send |-> TRUE, recv |-> TRUE, data |-> <<"m", "y", "s", "q", "l", " ", "s", "m", "t", "p">>]

ProbeSmtpFtp == [connect |-> TRUE, send |-> TRUE, recv |-> TRUE, data |-> <<"s", "m", "t", "p", " ", "f", "t", "p">>]

ProbeFtpHtml == [connect |-> TRUE, send |-> TRUE, recv |-> TRUE, data |-> <<"f", "t", "p", " ", "<", "H", "T", "M", "L", ">">>]

ProbeHttpSsh == [connect |-> TRUE, send |-> TRUE, recv |-> TRUE, data |-> <<"h", "t", "t", "p", " ", "s", "s", "h">>]

ProbeNoMarker == [connect |-> TRUE, send |-> TRUE, recv |-> TRUE, data |-> <<"h", "e", "l", "l", "o">>]

\* Only whitespace is read.
ProbeBlank == [connect |-> TRUE, send |-> TRUE, recv |-> TRUE, data |-> <<" ", "\n">>]

\* Bytes that are not UTF-8 around text.
ProbeBadBytes == [connect |-> TRUE, send |-> TRUE, recv |-> TRUE, data |-> <<BadByte, "o", "k", BadByte>>]

BannerProbes ==
    {ProbeConnectFails,
     ProbeRecvFails,
     ProbeSendFailsGreeting,
     ProbeHttp,
     ProbeSsh,
     ProbeMysql,
     ProbeMysqlSmtp,
     ProbeSmtpFtp,
     ProbeFtpHtml,
     ProbeHttpSsh,
     ProbeNoMarker,
     ProbeBlank,
     ProbeBadBytes}

\* Mutation of grab_banner: a failed connect is not caught.
grab_banner_uncaught(probe) ==
    IF ~probe.connect THEN [raised |-> TRUE, banner |-> None, left_open |-> 1]
    ELSE IF ~probe.recv THEN [raised |-> FALSE, banner |-> None, left_open |-> 1]
    ELSE LET banner == strip(decode_ignore(probe.data))
         IN  [raised |-> FALSE,
              banner |-> IF banner # <<>> THEN Some(banner) ELSE None,
              left_open |-> 0]

\* grab_banner(): a failed connect or recv ends in "except Exception: return
\* None"; a failed send is passed over (inner "except: pass") and the read
\* goes on; an empty text after strip() is returned as None.
grab_banner(probe) ==
    IF ~probe.connect THEN [raised |-> FALSE, banner |-> None, left_open |-> 1]
    ELSE IF ~probe.recv THEN [raised |-> FALSE, banner |-> None, left_open |-> 1]
    ELSE LET banner == strip(decode_ignore(probe.data))
         IN  [raised |-> FALSE,
              banner |-> IF banner # <<>> THEN Some(banner) ELSE None,
              left_open |-> 0]

\* Mutation of table_lookup: the table is not consulted.
table_lookup_skipped(table, port) ==
    [port |-> port, service |-> "Unknown", description |-> "", banner |-> None]

\* detect_service(), first half: the defaults, then the table's entry for
\* str(port) when there is one.
table_lookup(table, port) ==
    LET port_str == ToString(port)
    IN  IF port_str \in DOMAIN table
        THEN [port |-> port,
              service |-> table[port_str].service,
              description |-> table[port_str].description,
              banner |-> None]
        ELSE [port |-> port, service |-> "Unknown", description |-> "",
              banner |-> None]

\* Mutation of refine_service: a name found in the table is kept.
refine_service_unknown_only(service, banner_lower) ==
    IF service # "Unknown" THEN service
    ELSE IF Contains(banner_lower, <<"s", "s", "h">>) THEN "SSH"
    ELSE IF Contains(banner_lower, <<"h", "t", "t", "p">>)
            \/ Contains(banner_lower, <<"h", "t", "m", "l">>) THEN "HTTP"
    ELSE IF Contains(banner_lower, <<"f", "t", "p">>) THEN "FTP"
    ELSE IF Contains(banner_lower, <<"s", "m", "t", "p">>) THEN "SMTP"
    ELSE IF Contains(banner_lower, <<"m", "y", "s", "q", "l">>) THEN "MySQL"
    ELSE service

\* Mutation of refine_service: the file-transfer marker is tried first.
refine_service_ftp_first(service, banner_lower) ==
    IF Contains(banner_lower, <<"f", "t", "p">>) THEN "FTP"
    ELSE IF Contains(banner_lower, <<"s", "s", "h">>) THEN "SSH"
    ELSE IF Contains(banner_lower, <<"h", "t", "t", "p">>)
            \/ Contains(banner_lower, <<"h", "t", "m", "l">>) THEN "HTTP"
    ELSE IF Contains(banner_lower, <<"s", "m", "t", "p">>) THEN "SMTP"
    ELSE IF Contains(banner_lower, <<"m", "y", "s", "q", "l">>) THEN "MySQL"
    ELSE service

\* detect_service(), the if/elif chain on banner_lower.
refine_service(service, banner_lower) ==
    IF Contains(banner_lower, <<"s", "s", "h">>) THEN "SSH"
    ELSE IF Contains(banner_lower, <<"h", "t", "t", "p">>)
            \/ Contains(banner_lower, <<"h", "t", "m", "l">>) THEN "HTTP"
    ELSE IF Contains(banner_lower, <<"f", "t", "p">>) THEN "FTP"
    ELSE IF Contains(banner_lower, <<"s", "m", "t", "p">>) THEN "SMTP"
    ELSE IF Contains(banner_lower, <<"m", "y", "s", "q", "l">>) THEN "MySQL"
    ELSE service

\* Mutation of detect_service: a refined record loses its description.
detect_service_redescribed(port, banner) ==
    LET service_info == table_lookup(services_db, port)
    IN  IF banner # None
        THEN [service_info EXCEPT
                !.banner = banner,
                !.description =
                    IF refine_service(service_info.service, lower(banner[1]))
                       # service_info.service
                    THEN "" ELSE @,
                !.service = refine_service(@, lower(banner[1]))]
        ELSE service_info

\* detect_service(target, port), given what self.grab_banner returned.
detect_service(port, banner) ==
    LET service_info == table_lookup(services_db, port)
    IN  IF banner # None
        THEN [service_info EXCEPT
                !.banner = banner,
                !.service = refine_service(@, lower(banner[1]))]
        ELSE service_info

\* Mutation of DetectInput: every requested port is identified.
DetectInputRequested == ports

\* main(): detect_services(target, scan_results['open_ports']).
DetectInput == result.open_ports

\* Mutation of AfterDetect: the loop leaves out the last port.
AfterDetectShort(i) == IF i + 1 < Len(DetectInput) THEN "detect" ELSE "detected"

\* detect_services(): "for port in ports", then "return services".
AfterDetect(i) == IF i < Len(DetectInput) THEN "detect" ELSE "detected"

\* What the identifier leaves alone: the whole scan state.
scanvars == <<ports, threads, timeout, net, open_ports, queue, unfinished,
              lock, idx, spawned, wpc, wport, probes, reports, result,
              callNo, prev_result, run>>

\* main(): "if args.service_detection and scan_results['open_ports']:
\* detector = ServiceDetector()", then detect_services starts with
\* "services = []".  An exception of the constructor reaches main()'s
\* "except Exception" (sys.exit(1)).
DetectorNew ==
    /\ pc = "returned"
    /\ result.open_ports # <<>>
    /\ \E f \in DbFiles :
          LET loaded == load_services_db(f)
          IN  /\ db_file' = f
              /\ services_db' = loaded.table
              /\ pc' = IF loaded.raised THEN "error" ELSE AfterDetect(0)
    /\ services' = <<>>
    /\ met' = <<>>
    /\ UNCHANGED sockets
    /\ UNCHANGED scanvars

\* One turn of the loop of detect_services(): detect_service for the next
\* port of the input, with what its banner probe meets, and the append.
DetectService ==
    /\ pc = "detect"
    /\ LET i == Len(services) + 1
           port == DetectInput[i]
       IN  \E probe \in BannerProbes :
              LET grabbed == grab_banner(probe)
              IN  /\ met' = Append(met, [port |-> port, probe |-> probe])
                  /\ sockets' = sockets + grabbed.left_open
                  /\ IF grabbed.raised
                     THEN /\ pc' = "error"
                          /\ UNCHANGED services
                     ELSE /\ services' =
                                Append(services,
                                       detect_service(port, grabbed.banner))
                          /\ pc' = AfterDetect(i)
    /\ UNCHANGED <<db_file, services_db>>
    /\ UNCHANGED scanvars

\* A full run of main() with --service-detection: one scan() on a fresh
\* instance, then the identification of its open ports.
NextDetect ==
    \/ NextScan
    \/ DetectorNew
    \/ DetectService

SpecDetect == Init /\ [][NextDetect]_vars

\* ============================================================== properties
Requested == Range(ports)

\* Ports of the request that accept a connection in the fixed network.
Accepting == {p \in Requested : net[p] = "accept"}

StrictlyAscending(s) == \A i, j \in 1..Len(s) : i < j => s[i] < s[j]

NoDuplicates(s) == \A i, j \in 1..Len(s) : i # j => s[i] # s[j]

Returned == pc = "returned"

\* C1: the open_ports sequence scan() returns is a subset of the requested
\* ports, strictly ascending and free of duplicates, whatever the order in
\* which the workers appended.
C1_OpenPortsSortedSubset ==
    Returned =>
        /\ Range(result.open_ports) \subseteq Requested
        /\ StrictlyAscending(result.open_ports)
        /\ NoDuplicates(result.open_ports)
        /\ open_ports = result.open_ports

\* C1 witness: scan() has returned two open ports found by two workers.
C1_Witness ==
    /\ Returned
    /\ spawned = 2
    /\ Len(result.open_ports) = 2

\* C2: during one scan() call every requested port is probed exactly once.
\* At any moment no port has been probed twice and no port outside the
\* request has been probed; a port handed to a worker has been probed only
\* once the worker has left tcp_scan; when scan() returns every requested
\* port has been probed.
C2_ProbedExactlyOnce ==
    /\ \A p \in PortUniverse : probes[p] <= 1
    /\ \A p \in PortUniverse \ Requested : probes[p] = 0
    /\ \A w \in Workers :
          (wpc[w] = "scan" => probes[wport[w]] = 0)
    /\ \A v, w \in Workers :
          (v # w /\ wpc[v] \notin {"unstarted", "get", "exited"}
                 /\ wpc[w] \notin {"unstarted", "get", "exited"})
             => wport[v] # wport[w]
    /\ Returned => \A p \in Requested : probes[p] = 1

\* C2 witness: scan() has returned after two workers shared three ports, one
\* of which did not connect.
C2_Witness ==
    /\ Returned
    /\ spawned = 2
    /\ Len(ports) = 3
    /\ \A p \in Requested : probes[p] = 1
    /\ \E p \in Requested : net[p] = "errno"

\* C3: against a fixed network, for a request with a positive timeout, the
\* open_ports scan() returns are exactly the requested ports that accept, in
\* ascending order, and total_ports_scanned is the number of requested
\* ports; ports [22, 80, 9999] with 22 and 80 accepting and 9999 refusing
\* give open_ports = [22, 80] and total_ports_scanned = 3.
C3_ExactlyAcceptingPorts ==
    (Returned /\ timeout > 0) =>
        /\ result.open_ports = SeqOfPool(Accepting, 1)
        /\ result.total_ports_scanned = Len(ports)
        /\ (/\ ports = <<22, 80, 9999>>
            /\ net[22] = "accept" /\ net[80] = "accept"
            /\ net[9999] = "errno")
              => /\ result.open_ports = <<22, 80>>
                 /\ result.total_ports_scanned = 3

\* C3 witness: the scenario of ports [22, 80, 9999] has returned.
C3_Witness ==
    /\ Returned
    /\ timeout > 0
    /\ ports = <<22, 80, 9999>>
    /\ net[22] = "accept" /\ net[80] = "accept" /\ net[9999] = "errno"
    /\ result.open_ports = <<22, 80>>

\* C4: under fair scheduling, for a valid request (positive pool size and
\* timeout, so that every probe finishes), the scan() call of a fresh
\* instance on a non-empty port list eventually returns; and it has returned only when
\* every requested port has been probed, every worker it started has exited
\* and the queue is empty.
C4_ScanTerminates ==
    /\ [](Returned =>
            /\ \A p \in Requested : probes[p] = 1
            /\ \A w \in Workers :
                  wpc[w] = (IF w <= spawned THEN "exited" ELSE "unstarted")
            /\ queue = <<>>
            /\ lock = Unlocked)
    /\ ((callNo = 1 /\ ports # <<>> /\ ValidRequest) ~> Returned)

\* C4 witness: the first scan() of a two-worker, three-port request has
\* returned with both workers exited.
C4_Witness ==
    /\ Returned
    /\ callNo = 1
    /\ Len(ports) = 3
    /\ spawned = 2
    /\ wpc = [w \in Workers |-> "exited"]

\* C5: the scanner retains no state between calls: while a second scan()
\* call on the same instance runs (valid request, some port accepting), open_ports holds only ports probed open
\* during that call, each once, and at its entry the queue is empty with no
\* unfinished task left over from the first call.
C5_SecondScanRetainsNothing ==
    (callNo = 2 /\ ValidRequest /\ Accepting # {}) =>
        /\ \A i \in 1..Len(open_ports) : probes[open_ports[i]] = 1
        /\ NoDuplicates(open_ports)
        /\ (pc = "spawn" /\ spawned = 0) => (unfinished = 0 /\ queue = <<>>)
        /\ (pc = "join" /\ \A w \in Workers : wpc[w] \in {"unstarted", "get"})
              => unfinished = 0

\* C6: two scanner instances built for the same request against the same
\* fixed network return identical open_ports, whatever the interleaving of
\* the workers in either run.
C6_SameResultTwice ==
    (run = "second" /\ Returned) =>
        /\ prev_result.returned
        /\ result.open_ports = prev_result.open_ports
        /\ result.total_ports_scanned = prev_result.total_ports_scanned

\* C6 witness: the second instance has returned two open ports found by two
\* workers.
C6_Witness ==
    /\ run = "second"
    /\ Returned
    /\ spawned = 2
    /\ Len(result.open_ports) = 2
    /\ prev_result.returned

\* A per-port connection failure: refused, timed out, reset (errno) or any
\* other connection-establishment error (oserror).
Failing(p) == net[p] \in {"errno", "oserror"}

\* C7: a per-port connection failure is classified as closed inside the
\* worker that hit it.  With a valid timeout, the step that probes a failing
\* port leaves the worker at task_done (not dead, not appending), changes
\* neither open_ports nor the main thread's position, and a failing port is
\* never in open_ports; no worker is ever dead; the worker that hit the
\* failure can always go on and its next step takes it back to the queue
\* for further ports; and under fair scheduling the scan() of a valid
\* request with a failing port returns, with every port probed.
C7_PortFailureContained ==
    /\ [][\A w \in Workers :
            (/\ timeout > 0
             /\ wpc[w] = "scan"
             /\ wpc'[w] # "scan"
             /\ Failing(wport[w]))
                => /\ wpc'[w] = "task_done"
                   /\ open_ports' = open_ports
                   /\ pc' = pc
                   /\ result' = result]_vars
    /\ [](timeout > 0 =>
            /\ \A w \in Workers : wpc[w] # "crashed"
            /\ \A i \in 1..Len(open_ports) : ~Failing(open_ports[i])
            /\ Returned => \A p \in Requested : probes[p] = 1)
    /\ [](\A w \in Workers :
            (timeout > 0 /\ wpc[w] = "task_done" /\ Failing(wport[w]))
               => ENABLED WorkerTaskDone(w))
    /\ [][\A w \in Workers :
            (wpc[w] = "task_done" /\ wpc'[w] # "task_done")
               => wpc'[w] = "get"]_vars
    /\ (/\ callNo = 1 /\ threads >= 1 /\ timeout > 0
        /\ \E p \in Requested : Failing(p))
          ~> Returned

\* C7 witness: a worker has come out of a probe that raised socket.error
\* while ports are still waiting in the queue.
C7_Witness ==
    \E w \in Workers :
        /\ timeout > 0
        /\ wpc[w] = "task_done"
        /\ net[wport[w]] = "oserror"
        /\ queue # <<>>
        /\ Head(queue) # NoneItem

\* The target does not resolve at the socket layer.
Unresolvable == ports # <<>> /\ \A p \in Requested : net[p] = "gaierror"

\* C8: when the target cannot be resolved during a scan of a valid request,
\* the failure is reported once, the remaining ports are not probed and
\* scan() returns no result.
C8_ResolveFailureAborts ==
    (Unresolvable /\ ValidRequest) =>
        /\ reports <= 1
        /\ Cardinality({p \in Requested : probes[p] > 0}) <= 1
        /\ ~Returned

\* C9: a scan request with a configuration violation is rejected before
\* any worker is started and before any probe is attempted; stated for the
\* claim's case of a worker budget <= 0 with a non-empty port list (and a
\* positive timeout): the main thread is either still before scan() or has
\* rejected the request, and is in no other state.
C9_NonPositiveBudgetRejected ==
    (threads <= 0 /\ ports # <<>> /\ timeout > 0) =>
        /\ pc \in {"start", "rejected"}
        /\ spawned = 0
        /\ \A p \in PortUniverse : probes[p] = 0

\* C10: with a positive pool size, scan() starts min(threads, len(ports))
\* workers, at least 1 for a non-empty port list and never more than there
\* are ports; no more probes than that are in flight at any time; a request
\* with fewer ports than the pool size still probes every port, and a
\* one-port request runs with exactly one worker.
C10_PoolClamped ==
    threads >= 1 =>
        /\ spawned <= Min(threads, Len(ports))
        /\ pc \notin {"start", "spawn", "rejected"}
              => /\ spawned = Min(threads, Len(ports))
                 /\ (ports # <<>> => spawned >= 1)
                 /\ (Len(ports) = 1 => spawned = 1)
        /\ \A w \in Workers : w > spawned => wpc[w] = "unstarted"
        /\ Cardinality({w \in Workers : wpc[w] = "scan"})
              <= Min(threads, Len(ports))
        /\ (Returned /\ threads > Len(ports))
              => /\ spawned = Len(ports)
                 /\ \A p \in Requested : probes[p] = 1

\* C10 witness: a one-port request with pool size 2 has returned having
\* started one worker.
C10_Witness ==
    /\ Returned
    /\ threads = 2
    /\ Len(ports) = 1
    /\ spawned = 1
    /\ wpc[2] = "unstarted"

\* C11: scan() on an empty port list starts no worker and makes no probe;
\* its main thread is never blocked (it is at the join with no unfinished
\* task, at the final sort, or has returned, and can always take its next
\* step), and the result it returns has an empty open_ports sequence and
\* total_ports_scanned = 0.
C11_EmptyListScan ==
    (ports = <<>> /\ callNo >= 1) =>
        /\ spawned = 0
        /\ \A w \in Workers : wpc[w] = "unstarted"
        /\ \A p \in PortUniverse : probes[p] = 0
        /\ queue = <<>> /\ unfinished = 0
        /\ pc \in {"join", "finish", "returned"}
        /\ pc \in {"join", "finish"} => ENABLED ScanStep
        /\ Returned => /\ result.open_ports = <<>>
                       /\ result.total_ports_scanned = 0

\* C11 witness: scan() on an empty port list has returned, with a pool
\* size of 2 configured.
C11_Witness ==
    /\ ports = <<>>
    /\ threads = 2
    /\ callNo = 1
    /\ Returned
    /\ result.open_ports = <<>>
    /\ result.total_ports_scanned = 0

\* C12: if the scan is interrupted while workers are running, open_ports
\* is never left corrupted: during the call, at the moment of interruption
\* and afterwards it holds only requested ports whose probe has completed
\* with an open outcome, each at most once, in a consistent state of the
\* lock; and no result is returned from an interrupted scan.
C12_InterruptKeepsOpenPortsSound ==
    /\ \A i \in 1..Len(open_ports) :
          /\ open_ports[i] \in Requested
          /\ probes[open_ports[i]] = 1
          /\ net[open_ports[i]] = "accept"
          /\ \A w \in Workers :
                (wpc[w] \in {"scan", "acquire", "append"})
                   => wport[w] # open_ports[i]
    /\ NoDuplicates(open_ports)
    /\ \A p \in PortUniverse : probes[p] = 0 => p \notin Range(open_ports)
    /\ (lock # Unlocked) => wpc[lock] = "append"
    /\ pc = "interrupted" => result = NoResult

\* C12 witness: the scan was interrupted with one open port recorded, a
\* probe still in flight and nothing returned.
C12_Witness ==
    /\ pc = "interrupted"
    /\ Len(open_ports) = 1
    /\ \E w \in Workers : wpc[w] = "scan"
    /\ result = NoResult

\* C13: detect_services returns one record per input port, in the order of
\* the input: the i-th record is for the i-th input port and, once the call
\* has returned, there are as many records as input ports, whatever the
\* banner probes met.
C13_OneRecordPerInputPort ==
    (pc \in {"detect", "detected"}) =>
        /\ Len(services) <= Len(result.open_ports)
        /\ \A i \in 1..Len(services) : services[i].port = result.open_ports[i]
        /\ Len(met) = Len(services)
        /\ pc = "detect" => Len(services) < Len(result.open_ports)
        /\ pc = "detected" => Len(services) = Len(result.open_ports)

\* Three ports identified, the first without a banner, the second with one.
C13_Witness ==
    /\ pc = "detected"
    /\ Len(services) = 3
    /\ met[1].probe = ProbeConnectFails
    /\ met[2].probe = ProbeHttp
    /\ services[1].banner = None
    /\ services[2].banner # None

\* The name and description the loaded table gives a port.
TableService(port) ==
    IF ToString(port) \in DOMAIN services_db
    THEN services_db[ToString(port)].service
    ELSE "Unknown"

TableDescription(port) ==
    IF ToString(port) \in DOMAIN services_db
    THEN services_db[ToString(port)].description
    ELSE ""

\* The record of index i is the table's entry alone, without a banner.
TableOnly(i) ==
    /\ services[i].banner = None
    /\ services[i].service = TableService(services[i].port)
    /\ services[i].description = TableDescription(services[i].port)

\* The bytes read hold a character that is neither whitespace nor undecodable.
HasText(data) ==
    \E k \in 1..Len(data) : data[k] \notin (Whitespace \cup {BadByte})

HasBadByte(data) == \E k \in 1..Len(data) : data[k] = BadByte

\* C14, as stated: when any step of a port's banner probe fails (connect,
\* send, read, or bytes that do not decode), the port's record has no banner
\* and the table's name and description.
C14_AnyStepFailureNoBanner ==
    \A i \in 1..Len(services) :
        LET probe == met[i].probe
        IN  (\/ ~probe.connect
             \/ ~probe.send
             \/ ~probe.recv
             \/ HasBadByte(probe.data)) => TableOnly(i)

\* C14, amended: when the connect or the read of a port's banner probe
\* fails, or the text read is empty once undecodable bytes are dropped and
\* whitespace stripped, the port's record has no banner and the table's name
\* and description ("Unknown" and empty when the port is not in the table).
\* A failed send alone, or undecodable bytes among text, do not cost the
\* banner: the read goes on and the bytes are dropped.
C14_ConnectOrReadFailureNoBanner ==
    \A i \in 1..Len(services) :
        LET probe == met[i].probe
        IN  /\ (~probe.connect \/ ~probe.recv \/ ~HasText(probe.data)) =>
                   TableOnly(i)
            /\ (probe.connect /\ probe.recv /\ HasText(probe.data)) =>
                   services[i].banner # None

\* A port of the table whose read failed, a port outside the table whose
\* connect failed, and a port whose send failed and whose greeting was read.
C14_Witness ==
    /\ pc = "detected"
    /\ db_file = "absent"
    /\ Len(services) = 3
    /\ services[1].port = 22 /\ met[1].probe = ProbeRecvFails
    /\ services[1].service = "SSH" /\ services[1].banner = None
    /\ services[2].port = 80 /\ met[2].probe = ProbeSendFailsGreeting
    /\ services[2].banner = Some(<<"2", "2", "0", " ", "F", "T", "P">>)
    /\ services[3].port = 9999 /\ met[3].probe = ProbeConnectFails
    /\ services[3].service = "Unknown" /\ services[3].description = ""

\* C15: no failure of a port's banner probe makes detect_service or
\* detect_services raise: every port probed so far has its record, the loop
\* can go on while input ports remain, and the only exception of the
\* identification is one of the constructor, before any probe.
C15_ProbeFailureNeverRaises ==
    /\ pc = "error" => met = <<>> /\ services = <<>>
    /\ (pc \in {"detect", "detected"}) =>
          /\ Len(services) = Len(met)
          /\ \A i \in 1..Len(met) : services[i].port = met[i].port
    /\ pc = "detect" => ENABLED DetectService

\* The first port's connect failed and the second port's read failed; both
\* have their record and the third port was identified after them.
C15_Witness ==
    /\ pc = "detected"
    /\ Len(services) = 3
    /\ met[1].probe = ProbeConnectFails
    /\ met[2].probe = ProbeRecvFails
    /\ met[3].probe = ProbeSsh
    /\ services[3].service = "SSH"

\* The names the banner markers stand for.
MarkerNames == {"SSH", "HTTP", "FTP", "SMTP", "MySQL"}

\* The markers, looked for in a lowercased text.
HasSsh(low) == Contains(low, <<"s", "s", "h">>)

HasHttp(low) ==
    \/ Contains(low, <<"h", "t", "t", "p">>)
    \/ Contains(low, <<"h", "t", "m", "l">>)

HasFtp(low) == Contains(low, <<"f", "t", "p">>)

HasSmtp(low) == Contains(low, <<"s", "m", "t", "p">>)

HasMysql(low) == Contains(low, <<"m", "y", "s", "q", "l">>)

HasMarker(low) ==
    HasSsh(low) \/ HasHttp(low) \/ HasFtp(low) \/ HasSmtp(low)
        \/ HasMysql(low)

\* C16: when a banner was captured and its lowercased text contains a
\* recognised marker, the record's name comes from the banner whatever the
\* table says: it is one of the marker names, the same for every port with
\* that banner, "SSH" when the shell marker is there (also for a port the
\* table does not know), and "HTTP" for port 80 with "HTTP/1.1 200 OK".
C16_BannerMarkerSetsName ==
    \A i \in 1..Len(services) :
        LET rec == services[i]
        IN  (rec.banner # None /\ HasMarker(lower(rec.banner[1]))) =>
                /\ rec.service \in MarkerNames
                /\ HasSsh(lower(rec.banner[1])) => rec.service = "SSH"
                /\ (rec.port = 80 /\ rec.banner =
                        Some(<<"H", "T", "T", "P", "/", "1", ".", "1", " ",
                               "2", "0", "0", " ", "O", "K">>)) =>
                       rec.service = "HTTP"
                /\ \A j \in 1..Len(services) :
                       services[j].banner = rec.banner =>
                           services[j].service = rec.service

\* With the built-in table: port 22 answers with an HTTP status line and is
\* named "HTTP", port 80 too, and port 9999, which the table does not know,
\* answers with a shell banner and is named "SSH".
C16_Witness ==
    /\ pc = "detected"
    /\ db_file = "absent"
    /\ Len(services) = 3
    /\ services[1].port = 22 /\ met[1].probe = ProbeHttp
    /\ services[1].service = "HTTP"
    /\ services[2].port = 80 /\ met[2].probe = ProbeHttp
    /\ services[2].service = "HTTP" /\ services[2].banner # None
    /\ services[3].port = 9999 /\ met[3].probe = ProbeSsh
    /\ TableService(9999) = "Unknown"
    /\ services[3].service = "SSH"

\* How many of the five marker classes a lowercased text contains.
MarkerCount(low) ==
    Cardinality({c \in {"ssh", "http", "ftp", "smtp", "mysql"} :
        \/ c = "ssh" /\ HasSsh(low)
        \/ c = "http" /\ HasHttp(low)
        \/ c = "ftp" /\ HasFtp(low)
        \/ c = "smtp" /\ HasSmtp(low)
        \/ c = "mysql" /\ HasMysql(low)})

\* C17: the markers are tried in the order shell, hypertext, file transfer,
\* mail transfer, database, and the first that matches gives the name,
\* wherever the markers stand in the banner and whatever the table says.
C17_MarkerPriorityOrder ==
    \A i \in 1..Len(services) :
        LET rec == services[i]
        IN  rec.banner # None =>
                LET low == lower(rec.banner[1])
                    ssh == HasSsh(low)
                    http == HasHttp(low)
                    ftp == HasFtp(low)
                    smtp == HasSmtp(low)
                    mysql == HasMysql(low)
                IN  /\ ssh => rec.service = "SSH"
                    /\ (~ssh /\ http) => rec.service = "HTTP"
                    /\ (~ssh /\ ~http /\ ftp) => rec.service = "FTP"
                    /\ (~ssh /\ ~http /\ ~ftp /\ smtp) =>
                           rec.service = "SMTP"
                    /\ (~ssh /\ ~http /\ ~ftp /\ ~smtp /\ mysql) =>
                           rec.service = "MySQL"

\* Three banners with two markers each, the later one in the text being the
\* earlier one in the order: "smtp ftp" on port 22 gives "FTP", "http ssh"
\* on port 80 gives "SSH", "ftp <HTML>" on port 9999 gives "HTTP".
C17_Witness ==
    /\ pc = "detected"
    /\ db_file = "absent"
    /\ Len(services) = 3
    /\ services[1].port = 22 /\ met[1].probe = ProbeSmtpFtp
    /\ services[1].service = "FTP"
    /\ services[2].port = 80 /\ met[2].probe = ProbeHttpSsh
    /\ services[2].service = "SSH"
    /\ services[3].port = 9999 /\ met[3].probe = ProbeFtpHtml
    /\ services[3].service = "HTTP"
    /\ \A i \in 1..3 : MarkerCount(lower(services[i].banner[1])) = 2

\* C18: the banner changes nothing but the name: every record keeps the
\* table's description for its port (or the empty one) and the input port,
\* and a banner without any marker leaves the table's name (or "Unknown").
C18_ReclassificationOnlyChangesName ==
    \A i \in 1..Len(services) :
        LET rec == services[i]
        IN  /\ DOMAIN rec = {"port", "service", "description", "banner"}
            /\ rec.port = result.open_ports[i]
            /\ rec.description = TableDescription(rec.port)
            /\ (rec.banner # None /\ ~HasMarker(lower(rec.banner[1]))) =>
                   rec.service = TableService(rec.port)

\* With the built-in table: port 22 renamed "HTTP" by its banner keeps the
\* description "Secure Shell"; port 80 with the banner "hello" keeps the
\* table's name; port 9999 with a banner without marker stays "Unknown".
C18_Witness ==
    /\ pc = "detected"
    /\ db_file = "absent"
    /\ Len(services) = 3
    /\ services[1].port = 22 /\ met[1].probe = ProbeHttp
    /\ services[1].service = "HTTP"
    /\ services[1].description = "Secure Shell"
    /\ services[2].port = 80 /\ met[2].probe = ProbeNoMarker
    /\ services[2].service = "HTTP"
    /\ services[2].banner = Some(<<"h", "e", "l", "l", "o">>)
    /\ services[3].port = 9999 /\ met[3].probe = ProbeBadBytes
    /\ services[3].service = "Unknown" /\ services[3].description = ""
    /\ services[3].banner = Some(<<"o", "k">>)

\* C19: constructing a ServiceDetector always gives a usable table: when
\* the external table cannot be loaded (no file, a file that cannot be
\* read, or content that is not a table) the construction does not fail and
\* the table is the built-in one of 16 ports.
C19_ConstructionAlwaysYieldsTable ==
    (db_file \in {"absent", "unreadable", "invalid"}) =>
        /\ pc # "error"
        /\ services_db = get_default_services
        /\ Cardinality(DOMAIN services_db) = 16

\* The identification has begun: a detector was constructed.
Identifying == pc \in {"detect", "detected", "error"}

\* C20: in a full run the identification starts only once scan() has
\* returned and every worker has ended; banner probes go only to ports of
\* the scan's open_ports, all of them accepting; and no step of the
\* identification changes the scan result, the instance's open_ports or
\* the count of connect-scan probes of any port.
C20_IdentificationAfterScanOnly ==
    /\ [](/\ (Identifying \/ db_file # "unopened" \/ met # <<>>
                  \/ services # <<>>) =>
                /\ Identifying
                /\ result # NoResult
                /\ \A w \in Workers : wpc[w] \in {"unstarted", "exited"}
                /\ result.open_ports = open_ports
                /\ Range(open_ports) = Accepting
                /\ \A p \in Requested : probes[p] = 1
          /\ \A i \in 1..Len(met) :
                /\ met[i].port \in Range(result.open_ports)
                /\ net[met[i].port] = "accept")
    /\ [][(Identifying \/ Identifying') =>
             /\ result' = result
             /\ open_ports' = open_ports
             /\ probes' = probes]_vars

\* Three ports scanned, port 80 found closed; the two open ones, and only
\* they, were then identified.
C20_Witness ==
    /\ pc = "detected"
    /\ ports = <<22, 80, 9999>>
    /\ net[80] = "errno"
    /\ result.open_ports = <<22, 9999>>
    /\ Len(met) = 2
    /\ met[1].port = 22 /\ met[2].port = 9999
    /\ probes[80] = 1

\* C21: the lock guards the append to open_ports and nothing else.  At most
\* one worker is inside the with block, and it is the holder of the lock;
\* a worker that is probing does not hold the lock and its probe can
\* proceed whoever holds it; open_ports gets an entry only from the holder.
C21_LockGuardsOnlyAppend ==
    /\ [](/\ Cardinality({w \in Workers : wpc[w] = "append"}) <= 1
          /\ \A w \in Workers : (wpc[w] = "append") <=> (lock = w)
          /\ \A w \in Workers :
                (wpc[w] = "scan") => (lock # w /\ ENABLED WorkerScan(w)))
    /\ [][Len(open_ports') > Len(open_ports) =>
             /\ lock \in Workers
             /\ wpc[lock] = "append"
             /\ open_ports' = Append(open_ports, wport[lock])
             /\ lock' = Unlocked]_vars

\* Two workers probe two different ports at the same moment.
C21_Witness ==
    /\ wpc[1] = "scan" /\ wpc[2] = "scan"
    /\ wport[1] # wport[2]
    /\ lock = Unlocked

\* Some worker thread is running.
WorkersRunning == \E w \in Workers : wpc[w] \notin {"unstarted", "exited", "crashed"}

\* s is an initial part of t.
IsPrefix(s, t) == Len(s) <= Len(t) /\ SubSeq(t, 1, Len(s)) = s

\* How many entries of open_ports are the port p.
Occurrences(p) == Cardinality({i \in 1..Len(open_ports) : open_ports[i] = p})

\* C22: during a scan open_ports only grows and is sound.  Every entry is
\* a requested port that accepts, recorded by a completed probe: a port has
\* no more entries than probes completed on this instance (those of this
\* call, and one more in a second call on the instance); a port that does
\* not accept never has an entry; and while workers run every step leaves
\* the entries already there in place.
C22_OpenPortsGrowsAndIsSound ==
    /\ [](/\ \A i \in 1..Len(open_ports) :
                /\ open_ports[i] \in Requested
                /\ net[open_ports[i]] = "accept"
                /\ timeout > 0
          /\ \A p \in PortUniverse :
                /\ Occurrences(p) <=
                      probes[p] + (IF callNo = 2 THEN 1 ELSE 0)
                /\ (p \notin Requested \/ net[p] # "accept") =>
                       Occurrences(p) = 0
          /\ \A w \in Workers :
                (wpc[w] \in {"scan", "acquire", "append"} /\ callNo = 1) =>
                    Occurrences(wport[w]) = 0)
    /\ [][WorkersRunning => IsPrefix(open_ports, open_ports')]_vars

\* Two of three ports accept; one is recorded while a worker still probes,
\* and the closed port has been probed without being recorded.
C22_Witness ==
    /\ Len(ports) = 3
    /\ Len(open_ports) = 1
    /\ \E p \in Requested : net[p] = "errno" /\ probes[p] = 1
    /\ \E w \in Workers : wpc[w] = "scan" /\ net[wport[w]] = "accept"

\* scan() is at or past the loop that enqueues the stop sentinels.
Stopping == pc \in {"stop", "jointhreads", "finish", "returned"}

\* Sentinels enqueued so far by this call of scan().
SentinelsPut ==
    IF pc = "stop" THEN idx
    ELSE IF pc \in {"jointhreads", "finish", "returned"} THEN spawned
    ELSE 0

SentinelsQueued == Cardinality({i \in 1..Len(queue) : queue[i] = NoneItem})

\* Workers that left their loop on reading a sentinel.
ExitedWorkers == {w \in Workers : wpc[w] = "exited"}

\* C23: the sentinel protocol of scan().  A sentinel is in the queue, or a
\* worker has left its loop, only once the stop loop is reached, and by
\* then every requested port has been dequeued, probed and marked done.
\* Each sentinel enqueued is in the queue or has ended exactly one worker,
\* one per started worker at the end, so that when the final sort is
\* reached the queue is empty, every started worker has exited and none
\* can take a step: no append follows the sort.
C23_SentinelShutdownProtocol ==
    /\ (SentinelsQueued > 0 \/ ExitedWorkers # {}) => Stopping
    /\ Stopping =>
          /\ \A i \in 1..Len(queue) : queue[i] = NoneItem
          /\ \A p \in Requested : probes[p] = 1
          /\ \A w \in Workers : wpc[w] \in {"unstarted", "get", "exited"}
          /\ unfinished = SentinelsPut
          /\ lock = Unlocked
    /\ SentinelsQueued + Cardinality(ExitedWorkers) = SentinelsPut
    /\ (pc \in {"finish", "returned"}) =>
          /\ queue = <<>>
          /\ ExitedWorkers = 1..spawned
          /\ Cardinality(ExitedWorkers) = Min(threads, Len(ports))
                \/ ports = <<>>
          /\ \A w \in Workers : ~ENABLED WorkerStep(w)
    /\ Returned => open_ports = result.open_ports

\* Three ports and two workers: scan() has returned, both workers have
\* consumed their sentinel and the queue is empty.
C23_Witness ==
    /\ Returned
    /\ Len(ports) = 3
    /\ spawned = 2
    /\ ExitedWorkers = {1, 2}
    /\ queue = <<>>
    /\ \A p \in Requested : probes[p] = 1

\* C24: every socket a probe opens is closed by the time the probe
\* returns, in tcp_scan and in grab_banner, whichever step fails; stated
\* for a valid request to a target that resolves: at no moment of the scan
\* and the identification is there a socket that a returned probe left
\* without close().
C24_EverySocketClosed ==
    (ValidRequest /\ ~Unresolvable) => sockets = 0

====
